---- MODULE Spec2Model ----
(***************************************************************************)
(* Model of the <Observer> view-monitor component (src/src/index.tsx), the *)
(* needsPolyfill() feature detection (src/unnamed/part_000) and the        *)
(* observer registry ('./intersection') the component drives.              *)
(*                                                                         *)
(* Execution model: lifecycle methods are async functions.  The part of a  *)
(* method before its first await runs inside the action of the event that  *)
(* called it; the rest is a continuation.  A continuation waiting for the  *)
(* dynamic import sits in `waiting`; a continuation whose awaited promise  *)
(* has settled sits in the FIFO microtask `queue`.  Every event (render,   *)
(* unmount, ref change, observer record, module load) is a task of its     *)
(* own: the microtask queue drains before the next event, so the import is *)
(* the only suspension that outlives a task.                               *)
(*                                                                         *)
(* React (16/17, legacy mode): a setState made inside a lifecycle method   *)
(* is applied when the method has reached its await, a setState made       *)
(* elsewhere at once; either re-renders and calls componentDidUpdate; a    *)
(* setState on an unmounted instance is ignored.                           *)
(*                                                                         *)
(* The build is the production build: the invariant() of componentDidMount *)
(* (lines 69-76) is compiled out.                                          *)
(***************************************************************************)
EXTENDS Integers, Sequences, FiniteSets, TLC

VARIABLES
    window,        \* the three native capabilities needsPolyfill() tests
    polyfill,      \* load state of the 'intersection-observer' module
    refs,          \* current value of every ref object (owned by the owner)
    inst,          \* per instance: status, props, state.inView, state.intersectionObserverReady
    waiting,       \* handlers suspended on `await import(...)`
    queue,         \* microtask queue of resumed handlers
    registry,      \* observer registry: entries in creation order
    nObservers,    \* number of native observers constructed so far
    calls,         \* history: registry calls made by the last step
    onChangeLog,   \* history: per instance, the arguments of props.onChange calls
    imports,       \* history: per instance, number of import() calls started
    stepResolved,  \* history: per instance, has a shim-load step returned
    triggered,     \* history: per instance, has the triggerOnce unobserve deregistered it
    everObserved,  \* history: per instance, has it called observe
    handle,        \* history: per instance, "absent" at mount and since, "appeared", or "present" at mount
    lastCheck,     \* history: window and result of the last needsPolyfill() call
    delivered,     \* history: the record the last step delivered, if any
    nUpdates,      \* number of prop updates so far
    nDeliveries    \* number of visibility records delivered so far

vars == <<window, polyfill, refs, inst, waiting, queue, registry, nObservers,
          calls, onChangeLog, imports, stepResolved, triggered, everObserved,
          handle, lastCheck, delivered, nUpdates, nDeliveries>>

(* ------------------------------ bounds --------------------------------- *)
MaxUpdates == 1
MaxDeliveries == 2

(* ------------------------------ domains -------------------------------- *)
Instances == {1, 2}
Null == "null"
Refs == {"defaultRef", "ownerRef"}
\* The element each ref object is attached to while it is attached.
ElementOf == [defaultRef |-> "a", ownerRef |-> "b"]
Nodes == {ElementOf[r] : r \in Refs}
Roots == {Null, "rootA"}
RootIds == {Null, "id1"}
RootMargins == {Null, "10px"}
Thresholds == {0, 1}

Windows == [IntersectionObserver : BOOLEAN,
            IntersectionObserverEntry : BOOLEAN,
            intersectionRatio : BOOLEAN]

PropsSet == [forwardedRef : Refs, threshold : Thresholds, triggerOnce : BOOLEAN,
             root : Roots, rootMargin : RootMargins, rootId : RootIds,
             onChange : BOOLEAN, importPolyfill : BOOLEAN]

\* Props an owner passes at first render: the observer options it leaves out
\* take their defaults; later renders change them.
MountProps == [forwardedRef : Refs, threshold : {0}, triggerOnce : BOOLEAN,
               root : {Null}, rootMargin : {Null}, rootId : {Null},
               onChange : BOOLEAN, importPolyfill : BOOLEAN]

\* First-render props of a monitor that keeps the defaultProps flags.
DefaultFlagProps == {p \in MountProps : ~p.triggerOnce /\ ~p.onChange}

\* Props of a re-render: unchanged, or the ref or one observer option changed.
Rerender(p) ==
    {p} \cup {[p EXCEPT !.forwardedRef = r] : r \in Refs}
        \cup {[p EXCEPT !.threshold = t] : t \in Thresholds}
        \cup {[p EXCEPT !.root = r] : r \in Roots}
        \cup {[p EXCEPT !.rootMargin = m] : m \in RootMargins}
        \cup {[p EXCEPT !.rootId = r] : r \in RootIds}

InitialState == [status |-> "unmounted",
                 props |-> CHOOSE p \in MountProps : TRUE,
                 inView |-> FALSE,
                 ready |-> "undefined"]

(* -------------------------- feature detection -------------------------- *)
needsPolyfill_RatioUnchecked(win) ==
    ~(win.IntersectionObserver /\ win.IntersectionObserverEntry)

needsPolyfill(win) ==
    ~(win.IntersectionObserver
      /\ win.IntersectionObserverEntry
      /\ win.intersectionRatio)

(* --------------------------- observer registry ------------------------- *)
ConfigKey(config, rootId) ==
    <<IF rootId # Null THEN rootId ELSE config.root, config.rootMargin, config.threshold>>

EntryWithKey(reg, key) ==
    LET S == {k \in 1..Len(reg) : reg[k].key = key}
    IN IF S = {} THEN 0 ELSE CHOOSE k \in S : TRUE

EntryWithNode(reg, node) ==
    LET S == {k \in 1..Len(reg) : node \in DOMAIN reg[k].callbacks}
    IN IF S = {} THEN 0 ELSE CHOOSE k \in S : \A j \in S : k <= j

observe_ObserverPerNode(w, node, callback, config, rootId) ==
    [w EXCEPT !.registry = Append(@, [key |-> ConfigKey(config, rootId),
                                      observer |-> w.nObservers + 1,
                                      callbacks |-> (node :> callback)]),
              !.nObservers = @ + 1]

observe(w, node, callback, config, rootId) ==
    LET key == ConfigKey(config, rootId)
        k == EntryWithKey(w.registry, key)
    IN IF k = 0
       THEN [w EXCEPT !.registry = Append(@, [key |-> key,
                                               observer |-> w.nObservers + 1,
                                               callbacks |-> (node :> callback)]),
                      !.nObservers = @ + 1]
       ELSE [w EXCEPT !.registry[k].callbacks = (node :> callback) @@ @]

unobserve_UnknownNodeResets(w, node) ==
    LET k == EntryWithNode(w.registry, node)
    IN IF k = 0
       THEN [w EXCEPT !.registry = <<>>]
       ELSE [w EXCEPT !.registry[k].callbacks =
                          [n \in (DOMAIN @) \ {node} |-> @[n]]]

unobserve(w, node) ==
    LET k == EntryWithNode(w.registry, node)
    IN IF k = 0
       THEN w
       ELSE [w EXCEPT !.registry[k].callbacks =
                          [n \in (DOMAIN @) \ {node} |-> @[n]]]

(* ------------------------------ history -------------------------------- *)
Logged(w, call) == [w EXCEPT !.calls = Append(@, call)]

NodesRegisteredFor(reg, i) ==
    {n \in Nodes : \E k \in DOMAIN reg : /\ n \in DOMAIN reg[k].callbacks
                                          /\ reg[k].callbacks[n] = i}

\* The instance enters Triggered: the triggerOnce unobserve has run and left
\* no node registered for it.
Triggered(w, i) ==
    [w EXCEPT !.triggered[i] = @ \/ NodesRegisteredFor(w.registry, i) = {}]

(* --------------------------- the component ----------------------------- *)
Handler(i, kind, prevProps, prevState) ==
    [inst |-> i, kind |-> kind, prevProps |-> prevProps, prevInView |-> prevState.inView]

Microtask(t, h) == [t |-> t, h |-> h]

\* `this.props.forwardedRef.current`
current(w, i) == refs[w.inst[i].props.forwardedRef]

\* line 155: the step has already been done for this instance
alreadyReady(state) == state.ready = "true"

shouldImport_FlagIgnored(win, props) == needsPolyfill(win)

\* line 159: the shim is imported
shouldImport(win, props) == needsPolyfill(win) /\ props.importPolyfill

\* lines 92-96: an observer option changed between the lifecycle passes
optionChanged(prevProps, props) ==
    \/ prevProps.rootMargin # props.rootMargin
    \/ refs[prevProps.forwardedRef] # refs[props.forwardedRef]
    \/ prevProps.threshold # props.threshold

\* lines 101-102: the instance came into view and triggers only once
triggeredOnce(prevInView, state, props) ==
    prevInView # state.inView /\ state.inView /\ props.triggerOnce

observeNode_Unguarded(w, i, site) ==
    LET p == w.inst[i].props
    IN observe(Logged([w EXCEPT !.everObserved[i] = TRUE],
                      [op |-> "observe", by |-> i, site |-> site,
                       node |-> current(w, i), key |-> ConfigKey(p, p.rootId)]),
               current(w, i), i,
               [threshold |-> p.threshold, root |-> p.root,
                rootMargin |-> p.rootMargin], p.rootId)

\* lines 114-129
observeNode(w, i, site) ==
    LET p == w.inst[i].props
    IN IF current(w, i) = Null
       THEN w
       ELSE observe(Logged([w EXCEPT !.everObserved[i] = TRUE],
                           [op |-> "observe", by |-> i, site |-> site,
                            node |-> current(w, i), key |-> ConfigKey(p, p.rootId)]),
                    current(w, i), i,
                    [threshold |-> p.threshold, root |-> p.root,
                     rootMargin |-> p.rootMargin], p.rootId)

\* `unobserve(this.props.forwardedRef.current)` at lines 97, 103 and 110
unobserveCurrent(w, i, site) ==
    unobserve(Logged(w, [op |-> "unobserve", by |-> i, site |-> site,
                         node |-> current(w, i), key |-> <<>>]),
              current(w, i))

mountResumed_GuardsUnmounted(w, h) ==
    IF w.inst[h.inst].status = "mounted" /\ current(w, h.inst) # Null
    THEN observeNode(w, h.inst, "mount")
    ELSE w

\* componentDidMount after its await (lines 80-82).
mountResumed(w, h) ==
    IF current(w, h.inst) # Null
    THEN observeNode(w, h.inst, "mount")
    ELSE w

\* componentDidUpdate after its await (lines 91-105).
updateResumed(w, h) ==
    LET i == h.inst
        w1 == IF optionChanged(h.prevProps, w.inst[i].props)
              THEN observeNode(unobserveCurrent(w, i, "reconfigure"), i, "reconfigure")
              ELSE w
    IN IF triggeredOnce(h.prevInView, w1.inst[i], w1.inst[i].props)
       THEN Triggered(unobserveCurrent(w1, i, "triggerOnce"), i)
       ELSE w1

RECURSIVE setState(_, _, _, _)
RECURSIVE importIntersectionObserverPolyfill(_, _)

\* `await this.importIntersectionObserverPolyfill()` in handler h (lines 78
\* and 89): the step runs up to its own await or return, then h suspends.
awaitPolyfill(w, h) == importIntersectionObserverPolyfill(w, h)

\* componentDidUpdate up to its await (line 89).
componentDidUpdate(w, i, prevProps, prevState) ==
    awaitPolyfill(w, Handler(i, "update", prevProps, prevState))

componentDidMount_NotAwaited(w, i) ==
    mountResumed(awaitPolyfill(w, Handler(i, "mount", w.inst[i].props, w.inst[i])),
                 Handler(i, "mount", w.inst[i].props, w.inst[i]))

\* componentDidMount up to its await (line 78).
componentDidMount(w, i) ==
    awaitPolyfill(w, Handler(i, "mount", w.inst[i].props, w.inst[i]))

\* React's setState for field f: ignored on an instance that is not mounted;
\* otherwise the state changes and the re-render calls componentDidUpdate.
setState(w, i, f, v) ==
    IF w.inst[i].status # "mounted"
    THEN w
    ELSE componentDidUpdate([w EXCEPT !.inst[i][f] = v], i, w.inst[i].props, w.inst[i])

importIntersectionObserverPolyfill_ReadyBeforeImport(w, h) ==
    LET i == h.inst
        returned == [w EXCEPT !.queue = Append(@, Microtask("cont", h)),
                              !.stepResolved[i] = TRUE]
    IN IF alreadyReady(w.inst[i])
       THEN returned
       ELSE IF shouldImport(window, w.inst[i].props)
            THEN [w EXCEPT !.inst[i].ready = "true",
                           !.imports[i] = @ + 1,
                           !.polyfill = IF @ = "loaded" THEN @ ELSE "loading",
                           !.waiting = IF w.polyfill = "loaded" THEN @ ELSE Append(@, h),
                           !.queue = IF w.polyfill = "loaded"
                                     THEN Append(@, Microtask("imported", h)) ELSE @]
            ELSE setState(returned, i, "ready", "true")

\* importIntersectionObserverPolyfill up to its await (line 162) or return,
\* called by handler h.  When it returns without awaiting, h resumes in a
\* microtask.  A setState made while a lifecycle method runs is applied when
\* the method has reached its await.
importIntersectionObserverPolyfill(w, h) ==
    LET i == h.inst
        returned == [w EXCEPT !.queue = Append(@, Microtask("cont", h)),
                              !.stepResolved[i] = TRUE]
    IN IF alreadyReady(w.inst[i])
       THEN returned
       ELSE LET checked(v) == [v EXCEPT !.lastCheck =
                                  <<[window |-> window, result |-> needsPolyfill(window)]>>]
            IN IF shouldImport(window, w.inst[i].props)
               THEN IF w.polyfill = "loaded"
                    THEN [checked(w) EXCEPT !.imports[i] = @ + 1,
                                            !.queue = Append(@, Microtask("imported", h))]
                    ELSE [checked(w) EXCEPT !.imports[i] = @ + 1,
                                            !.polyfill = "loading",
                                            !.waiting = Append(@, h)]
               ELSE setState(checked(returned), i, "ready", "true")

importResumed_CallerNotResumed(w, h) ==
    [setState(w, h.inst, "ready", "true") EXCEPT !.stepResolved[h.inst] = TRUE]

\* importIntersectionObserverPolyfill after its await (line 165); its caller
\* h then resumes in a microtask.
importResumed(w, h) ==
    LET w1 == setState(w, h.inst, "ready", "true")
    IN [w1 EXCEPT !.queue = Append(@, Microtask("cont", h)),
                  !.stepResolved[h.inst] = TRUE]

componentWillUnmount_Unguarded(w, i) ==
    [unobserveCurrent(w, i, "unmount") EXCEPT !.inst[i].status = "dead"]

\* lines 108-112
componentWillUnmount(w, i) ==
    LET w1 == IF current(w, i) # Null
              THEN unobserveCurrent(w, i, "unmount")
              ELSE w
    IN [w1 EXCEPT !.inst[i].status = "dead"]

\* lines 131-136
handleChange(w, i, inView) ==
    LET w1 == setState([w EXCEPT !.delivered = <<[to |-> i, inView |-> inView]>>],
                       i, "inView", inView)
    IN IF w1.inst[i].props.onChange
       THEN [w1 EXCEPT !.onChangeLog[i] = Append(@, inView)]
       ELSE w1

(* --------------------------- state machine ----------------------------- *)
World ==
    [polyfill |-> polyfill, inst |-> inst, waiting |-> waiting, queue |-> queue,
     registry |-> registry, nObservers |-> nObservers, calls |-> <<>>,
     onChangeLog |-> onChangeLog, imports |-> imports, stepResolved |-> stepResolved,
     triggered |-> triggered, everObserved |-> everObserved, lastCheck |-> lastCheck,
     delivered |-> <<>>]

\* The step's outcome w, computed once, becomes the next state.
CommitWorld(w, newRefs) ==
    /\ polyfill' = w.polyfill
    /\ inst' = w.inst
    /\ waiting' = w.waiting
    /\ queue' = w.queue
    /\ registry' = w.registry
    /\ nObservers' = w.nObservers
    /\ calls' = w.calls
    /\ onChangeLog' = w.onChangeLog
    /\ imports' = w.imports
    /\ stepResolved' = w.stepResolved
    /\ triggered' = w.triggered
    /\ everObserved' = w.everObserved
    /\ lastCheck' = w.lastCheck
    /\ refs' = newRefs
    /\ delivered' = w.delivered
    /\ handle' = [i \in Instances |->
                     IF w.inst[i].status = "unmounted" THEN "unmounted"
                     ELSE IF inst[i].status = "unmounted"
                          THEN IF newRefs[w.inst[i].props.forwardedRef] = Null
                               THEN "absent" ELSE "present"
                     ELSE IF handle[i] = "absent"
                             /\ newRefs[w.inst[i].props.forwardedRef] # Null
                          THEN "appeared"
                     ELSE handle[i]]

Commit(w, newRefs) == \E v \in {w} : CommitWorld(v, newRefs)

\* The initial state but for the environment's window and the refs.
InitCommon ==
    /\ polyfill = "idle"
    /\ inst = [i \in Instances |-> InitialState]
    /\ waiting = <<>>
    /\ queue = <<>>
    /\ registry = <<>>
    /\ nObservers = 0
    /\ calls = <<>>
    /\ onChangeLog = [i \in Instances |-> <<>>]
    /\ imports = [i \in Instances |-> 0]
    /\ stepResolved = [i \in Instances |-> FALSE]
    /\ triggered = [i \in Instances |-> FALSE]
    /\ everObserved = [i \in Instances |-> FALSE]
    /\ handle = [i \in Instances |-> "unmounted"]
    /\ lastCheck = <<>>
    /\ delivered = <<>>
    /\ nUpdates = 0
    /\ nDeliveries = 0

Native == [IntersectionObserver |-> TRUE, IntersectionObserverEntry |-> TRUE,
           intersectionRatio |-> TRUE]
Legacy == [IntersectionObserver |-> FALSE, IntersectionObserverEntry |-> FALSE,
           intersectionRatio |-> FALSE]

\* One monitor; createRef() leaves every ref empty until React attaches it.
Init ==
    /\ window \in {Native, Legacy}
    /\ refs = [r \in Refs |-> Null]
    /\ InitCommon

\* The owner renders instance i for the first time with props p.
Mount(i, p) ==
    /\ queue = <<>>
    /\ inst[i].status = "unmounted"
    /\ Commit(componentDidMount([World EXCEPT !.inst[i].status = "mounted",
                                              !.inst[i].props = p], i), refs)
    /\ UNCHANGED <<window, nUpdates, nDeliveries>>

\* The owner re-renders instance i with props p.
Update(i, p) ==
    /\ queue = <<>>
    /\ inst[i].status = "mounted"
    /\ nUpdates < MaxUpdates
    /\ nUpdates' = nUpdates + 1
    /\ Commit(componentDidUpdate([World EXCEPT !.inst[i].props = p], i,
                                 inst[i].props, inst[i]), refs)
    /\ UNCHANGED <<window, nDeliveries>>

\* The owner removes instance i.
Unmount(i) ==
    /\ queue = <<>>
    /\ inst[i].status = "mounted"
    /\ Commit(componentWillUnmount(World, i), refs)
    /\ UNCHANGED <<window, nUpdates, nDeliveries>>

\* React attaches ref r to its element, or detaches it.
SetRef(r) ==
    /\ queue = <<>>
    /\ Commit(World, [refs EXCEPT ![r] = IF @ = Null THEN ElementOf[r] ELSE Null])
    /\ UNCHANGED <<window, nUpdates, nDeliveries>>

\* The native observer of entry k reports a record for node n; the entry's
\* dispatch function looks the callback up by node and invokes it.
Deliver(k, n, b) ==
    /\ queue = <<>>
    /\ k \in 1..Len(registry)
    /\ n \in DOMAIN registry[k].callbacks
    /\ nDeliveries < MaxDeliveries
    /\ nDeliveries' = nDeliveries + 1
    /\ Commit(handleChange(World, registry[k].callbacks[n], b), refs)
    /\ UNCHANGED <<window, nUpdates>>

\* The 'intersection-observer' module finishes loading: it installs the
\* constructor globally and every pending import() promise is fulfilled.
ImportLoaded ==
    /\ queue = <<>>
    /\ polyfill = "loading"
    /\ window' = [window EXCEPT !.IntersectionObserver = TRUE]
    /\ Commit([World EXCEPT !.polyfill = "loaded",
                            !.waiting = <<>>,
                            !.queue = @ \o [k \in 1..Len(waiting) |->
                                               Microtask("imported", waiting[k])]], refs)
    /\ UNCHANGED <<nUpdates, nDeliveries>>

\* The first microtask runs.
RunImported ==
    /\ queue # <<>>
    /\ Head(queue).t = "imported"
    /\ Commit(importResumed([World EXCEPT !.queue = Tail(@)], Head(queue).h), refs)
    /\ UNCHANGED <<window, nUpdates, nDeliveries>>

RunMountResumed ==
    /\ queue # <<>>
    /\ Head(queue).t = "cont"
    /\ Head(queue).h.kind = "mount"
    /\ Commit(mountResumed([World EXCEPT !.queue = Tail(@)], Head(queue).h), refs)
    /\ UNCHANGED <<window, nUpdates, nDeliveries>>

RunUpdateResumed ==
    /\ queue # <<>>
    /\ Head(queue).t = "cont"
    /\ Head(queue).h.kind = "update"
    /\ Commit(updateResumed([World EXCEPT !.queue = Tail(@)], Head(queue).h), refs)
    /\ UNCHANGED <<window, nUpdates, nDeliveries>>

Next ==
    \/ \E p \in MountProps : Mount(1, p)
    \/ \E p \in Rerender(inst[1].props) : Update(1, p)
    \/ Unmount(1)
    \/ \E r \in Refs : SetRef(r)
    \/ \E k \in 1..Len(registry), n \in Nodes, b \in BOOLEAN : Deliver(k, n, b)
    \/ ImportLoaded
    \/ RunImported
    \/ RunMountResumed
    \/ RunUpdateResumed

Spec == Init /\ [][Next]_vars

\* Two monitors in any environment, every ref attached to its element.
InitShared ==
    /\ window \in Windows
    /\ refs = [r \in Refs |-> ElementOf[r]]
    /\ InitCommon

NextShared ==
    \/ \E i \in Instances, p \in DefaultFlagProps : Mount(i, p)
    \/ \E i \in Instances : \E p \in Rerender(inst[i].props) : Update(i, p)
    \/ \E i \in Instances : Unmount(i)
    \/ ImportLoaded
    \/ RunImported
    \/ RunMountResumed
    \/ RunUpdateResumed

SpecShared == InitShared /\ [][NextShared]_vars

\* One monitor without visibility reports.  The job queue always runs its
\* first microtask, and a module that is loading finishes loading.
NextLive ==
    \/ \E p \in DefaultFlagProps : Mount(1, p)
    \/ \E p \in Rerender(inst[1].props) : Update(1, p)
    \/ Unmount(1)
    \/ \E r \in Refs : SetRef(r)
    \/ ImportLoaded
    \/ RunImported
    \/ RunMountResumed
    \/ RunUpdateResumed

Scheduling ==
    /\ WF_vars(ImportLoaded)
    /\ WF_vars(RunImported \/ RunMountResumed \/ RunUpdateResumed)

SpecLive == Init /\ [][NextLive]_vars /\ Scheduling

TypeOK ==
    /\ window \in Windows
    /\ polyfill \in {"idle", "loading", "loaded"}
    /\ refs \in [Refs -> Nodes \cup {Null}]
    /\ \A i \in Instances :
          /\ inst[i].props \in PropsSet
          /\ inst[i].status \in {"unmounted", "mounted", "dead"}
          /\ inst[i].inView \in BOOLEAN
          /\ inst[i].ready \in {"undefined", "true"}
    /\ \A k \in DOMAIN registry : DOMAIN registry[k].callbacks \subseteq Nodes

(* ------------------------------ properties ----------------------------- *)
TrueCount(log) == Cardinality({k \in DOMAIN log : log[k]})

CallsBy(i, site) == {k \in DOMAIN calls : calls[k].by = i /\ calls[k].site = site}

\* C1 (as stated): an instance makes no registry call, observe or unobserve,
\* before a shim-load step of that instance has resolved.
C1_NoRegistryCallBeforeShim ==
    \A k \in DOMAIN calls : stepResolved[calls[k].by]

\* C1 (amended): an instance calls observe only after a shim-load step of that
\* instance has resolved, and when it started an import only after the module
\* has loaded; the one registry call it can make earlier is the unobserve of
\* componentWillUnmount.
C1_ObserveOnlyAfterShim ==
    /\ \A k \in DOMAIN calls :
          ~stepResolved[calls[k].by]
              => calls[k].op = "unobserve" /\ calls[k].site = "unmount"
    /\ \A i \in Instances :
          everObserved[i] => /\ stepResolved[i]
                             /\ imports[i] > 0 => polyfill = "loaded"

C1_DeferredRegistration ==
    \E k \in DOMAIN calls : /\ calls[k].op = "observe"
                            /\ calls[k].site = "mount"
                            /\ imports[calls[k].by] > 0

\* C2: once the triggerOnce unobserve has deregistered the node and until
\* unmount, inView stays true and onChange(true) has been invoked exactly once.
C2_TriggeredIsAbsorbing ==
    \A i \in Instances :
        (triggered[i] /\ inst[i].status = "mounted")
            => /\ inst[i].inView
               /\ inst[i].props.onChange => TrueCount(onChangeLog[i]) = 1

\* C3: once an instance is unmounted and no node is registered on its behalf,
\* no node is registered on its behalf in any later state, also after its
\* pending mount and update handlers resume.
C3_NoRegistrationAfterUnmount ==
    [][\A i \in Instances :
          (inst[i].status = "dead" /\ NodesRegisteredFor(registry, i) = {})
              => NodesRegisteredFor(registry', i) = {}]_vars

\* C4: an update that finds rootMargin, the node or threshold changed, and
\* has a node, makes exactly one unobserve and then one observe under the new
\* key, after which the current node is the only node registered for the
\* instance.
C4_ReconfigureReplacesRegistration ==
    \A i \in Instances :
        (\E k \in CallsBy(i, "reconfigure") : calls[k].node # Null)
            => /\ Len(calls) = 2
               /\ calls[1].op = "unobserve"
               /\ calls[2].op = "observe"
               /\ calls[2].key = ConfigKey(inst[i].props, inst[i].props.rootId)
               /\ NodesRegisteredFor(registry, i) = {calls[2].node}

\* C5: a delivery of b to an instance sets its inView to b and, when onChange
\* was supplied, calls onChange(b) exactly once in the same step.
C5_DeliverySetsInViewAndNotifies ==
    [][\A k \in DOMAIN delivered' :
          /\ inst'[delivered'[k].to].inView = delivered'[k].inView
          /\ onChangeLog'[delivered'[k].to] =
                IF inst[delivered'[k].to].props.onChange
                THEN Append(onChangeLog[delivered'[k].to], delivered'[k].inView)
                ELSE onChangeLog[delivered'[k].to]]_vars

\* C6 (as stated): an instance mounted without a node handle never calls
\* observe and its inView stays false for ever.
C6_AbsentAtMountNeverObserves ==
    \A i \in Instances :
        handle[i] \in {"absent", "appeared"} => ~everObserved[i] /\ ~inst[i].inView

\* C6 (amended): an instance mounted without a node handle calls no observe
\* and keeps inView false for as long as the handle stays absent.
C6_AbsentHandleNeverObserves ==
    \A i \in Instances :
        handle[i] = "absent" => ~everObserved[i] /\ ~inst[i].inView

C6_UpdatedWhileAbsent ==
    \E i \in Instances : /\ handle[i] = "absent"
                         /\ CallsBy(i, "reconfigure") # {}

\* C7: an instance starts the shim import at most once in its lifetime.
C7_ImportAtMostOnce ==
    \A i \in Instances : imports[i] <= 1

\* C8: an import is started only when needsPolyfill() is true and
\* importPolyfill is set; a mount where either fails starts no import,
\* suspends nothing and has its shim-load step resolved at once.
C8_ImportOnlyWhenNeededAndOptedIn ==
    [][\A i \in Instances :
          /\ imports'[i] > imports[i]
                => needsPolyfill(window) /\ inst'[i].props.importPolyfill
          /\ (inst[i].status = "unmounted" /\ inst'[i].status = "mounted"
              /\ ~(needsPolyfill(window) /\ inst'[i].props.importPolyfill))
                => /\ imports'[i] = 0
                   /\ waiting' = waiting
                   /\ polyfill' = polyfill
                   /\ stepResolved'[i]]_vars

C8_NeededButNotOptedIn ==
    \E i \in Instances : /\ inst[i].status = "mounted"
                         /\ ~inst[i].props.importPolyfill
                         /\ needsPolyfill(window)
                         /\ stepResolved[i]
                         /\ imports[i] = 0

\* C9: needsPolyfill() returns false exactly when the observer constructor,
\* the record type and the record prototype's intersectionRatio are all
\* present.
C9_NeedsPolyfillTable ==
    \A k \in DOMAIN lastCheck :
        lastCheck[k].result = FALSE
            <=> /\ lastCheck[k].window.IntersectionObserver = TRUE
                /\ lastCheck[k].window.IntersectionObserverEntry = TRUE
                /\ lastCheck[k].window.intersectionRatio = TRUE

C9_OnlyRatioMissing ==
    \E k \in DOMAIN lastCheck :
        /\ lastCheck[k].window = [IntersectionObserver |-> TRUE,
                                  IntersectionObserverEntry |-> TRUE,
                                  intersectionRatio |-> FALSE]
        /\ lastCheck[k].result = TRUE

C11_ReadyOnceAfterShim ==
    [][\A i \in Instances :
          /\ inst'[i].status = "unmounted"
                => ~inst'[i].inView /\ inst'[i].ready = "undefined"
          /\ inst'[i].ready # inst[i].ready
                => /\ inst[i].ready = "undefined"
                   /\ inst'[i].ready = "true"
                   /\ stepResolved'[i]
                   /\ imports'[i] > 0 => polyfill' = "loaded"]_vars

C11_ReadyAfterImport ==
    \E i \in Instances : inst[i].ready = "true" /\ imports[i] > 0

\* C12: onChange(b) is invoked only when the delivery changes inView: b
\* differs from the inView the instance held immediately before the delivery.
C12_OnChangeOnlyOnChange ==
    [][\A k \in DOMAIN delivered' :
          onChangeLog'[delivered'[k].to] # onChangeLog[delivered'[k].to]
              => delivered'[k].inView # inst[delivered'[k].to].inView]_vars

\* C13: unobserve of a node that is not registered is a no-op: a step whose
\* only registry call is the unobserve of a node contained in no entry's
\* callback mapping leaves every entry (key, observer handle, callback
\* mapping) and the number of observers unchanged.
C13_UnobserveUnknownIsNoOp ==
    [][(/\ Len(calls') = 1
        /\ calls'[1].op = "unobserve"
        /\ EntryWithNode(registry, calls'[1].node) = 0)
          => registry' = registry /\ nObservers' = nObservers]_vars

\* The unmount-time unobserve of a node that the triggerOnce unobserve had
\* already removed.
C13_UnmountAfterTriggerOnce ==
    \E i \in Instances :
        /\ triggered[i] /\ nUpdates = 0
        /\ inst[i].status = "dead"
        /\ Len(calls) = 1
        /\ calls[1] = [op |-> "unobserve", by |-> i, site |-> "unmount",
                       node |-> current(World, i), key |-> <<>>]
        /\ registry # <<>>

\* C14: the monitor invokes no registry operation while its node handle is
\* absent: every observe and unobserve call is passed a present node handle.
C14_RegistryCallsPassPresentNode ==
    \A k \in DOMAIN calls : calls[k].node # Null

\* C14 (amended): every observe call is passed a present node handle, and so
\* is the unobserve of componentWillUnmount; only the unobserve calls of the
\* update handler (reconfiguration and triggerOnce) can be passed an absent
\* handle.
C14_ObservePassesPresentNode ==
    \A k \in DOMAIN calls :
        calls[k].node = Null
            => /\ calls[k].op = "unobserve"
               /\ calls[k].site \in {"reconfigure", "triggerOnce"}

\* An update changed an observer option while the handle was absent: the
\* handler called unobserve with the absent handle and did not call observe.
C14_ReconfiguredWhileAbsent ==
    /\ Len(calls) = 1
    /\ calls[1].op = "unobserve" /\ calls[1].site = "reconfigure"
    /\ calls[1].node = Null

\* C15: in every reachable state each node handle is contained in at most one
\* registry entry's callback mapping.
C15_NodeInAtMostOneEntry ==
    \A n \in Nodes :
        Cardinality({k \in DOMAIN registry : n \in DOMAIN registry[k].callbacks}) <= 1

\* The first microtask is of type t, for a handler of kind kind whose instance
\* was unmounted while its import was pending.
ResumesUnmounted(t, kind) ==
    /\ queue # <<>>
    /\ Head(queue).t = t
    /\ Head(queue).h.kind = kind
    /\ inst[Head(queue).h.inst].status = "dead"

\* C16: an in-flight import is not cancelled by unmount: when it resolves, the
\* continuation runs on the unmounted instance, intersectionObserverReady is
\* set to true and, if the node handle is still present, the resumed mount
\* handler registers the node.
C16_ContinuationSetsReadyAndRegisters ==
    [][/\ ResumesUnmounted("imported", "mount")
          => inst'[Head(queue).h.inst].ready = "true"
       /\ ResumesUnmounted("cont", "mount") /\ current(World, Head(queue).h.inst) # Null
          => current(World, Head(queue).h.inst)
                 \in NodesRegisteredFor(registry', Head(queue).h.inst)]_vars

\* C16 (amended): when the import resolves, the continuation runs on the
\* unmounted instance: the shim-load step resolves and the mount handler
\* resumes, but the setState is ignored and intersectionObserverReady keeps
\* its value; the resumed mount handler registers the node if the node handle
\* is still present, and otherwise leaves the registry unchanged.
C16_ContinuationRunsStateIgnored ==
    [][/\ ResumesUnmounted("imported", "mount")
          => /\ stepResolved'[Head(queue).h.inst]
             /\ inst' = inst
             /\ queue' = Append(Tail(queue), Microtask("cont", Head(queue).h))
       /\ ResumesUnmounted("cont", "mount")
          => IF current(World, Head(queue).h.inst) # Null
             THEN current(World, Head(queue).h.inst)
                      \in NodesRegisteredFor(registry', Head(queue).h.inst)
             ELSE registry' = registry]_vars

\* The resumed mount handler of an unmounted instance has just registered the
\* node, and intersectionObserverReady is still undefined.
C16_RegisteredAfterUnmount ==
    \E i \in Instances :
        /\ inst[i].status = "dead"
        /\ imports[i] > 0
        /\ inst[i].ready = "undefined"
        /\ calls = <<[op |-> "observe", by |-> i, site |-> "mount",
                      node |-> current(World, i),
                      key |-> ConfigKey(inst[i].props, inst[i].props.rootId)]>>
        /\ current(World, i) \in NodesRegisteredFor(registry, i)

\* The mount handler of instance i is suspended at its await.
MountPending(i) ==
    \/ \E k \in DOMAIN waiting : waiting[k].inst = i /\ waiting[k].kind = "mount"
    \/ \E k \in DOMAIN queue : queue[k].h.inst = i /\ queue[k].h.kind = "mount"

\* The current node of instance i is registered with i's callback in the
\* entry whose key derives from i's current props.
RegisteredUnderCurrentConfig(i) ==
    \E k \in DOMAIN registry :
        /\ registry[k].key = ConfigKey(inst[i].props, inst[i].props.rootId)
        /\ current(World, i) \in DOMAIN registry[k].callbacks
        /\ registry[k].callbacks[current(World, i)] = i

\* C17: if an instance is mounted, its node handle stays present and it is
\* not unmounted, then (the shim step resolving by the scheduling of
\* SpecLive) its node is eventually registered under the instance's current
\* configuration.
C17_MountedEventuallyRegistered ==
    \A i \in Instances :
        [](inst[i].status = "mounted" /\ MountPending(i)
             => ([](inst[i].status = "mounted" /\ current(World, i) # Null)
                   => <>RegisteredUnderCurrentConfig(i)))

\* The node was registered by the mount handler resumed after an import that
\* had to wait for the module.
C17_RegisteredAfterImport ==
    \E i \in Instances :
        /\ inst[i].status = "mounted"
        /\ imports[i] > 0
        /\ \E k \in DOMAIN calls : calls[k].by = i /\ calls[k].site = "mount"
        /\ RegisteredUnderCurrentConfig(i)

\* C18: whenever an instance has no lifecycle handler pending and its node is
\* registered, the key of the registration equals the key derived from the
\* instance's current props (root or rootId, rootMargin, threshold).
C18_RegistrationKeyIsCurrent ==
    \A i \in Instances :
        (/\ inst[i].status = "mounted"
         /\ queue = <<>>
         /\ \A k \in DOMAIN waiting : waiting[k].inst # i)
            => \A k \in DOMAIN registry :
                  (/\ current(World, i) \in DOMAIN registry[k].callbacks
                   /\ registry[k].callbacks[current(World, i)] = i)
                      => registry[k].key = ConfigKey(inst[i].props, inst[i].props.rootId)

\* C19: the lifecycle events of one instance leave every other instance's
\* registration and inView unchanged, also when the instances omit
\* forwardedRef and get the default ref: among instances that all use the
\* default ref, a step whose registry calls are all made by other instances
\* changes neither the set of nodes registered with j's callback nor j's
\* inView.
C19_OtherInstancesUntouched ==
    [][\A j \in Instances :
          (/\ \A i \in Instances :
                 inst'[i].status # "unmounted"
                     => inst'[i].props.forwardedRef = "defaultRef"
           /\ \A k \in DOMAIN calls' : calls'[k].by # j)
              => /\ NodesRegisteredFor(registry', j) = NodesRegisteredFor(registry, j)
                 /\ inst'[j].inView = inst[j].inView]_vars

====
